---- MODULE Spec2Model ----
(***************************************************************************)
(* Model of the SCITT hashed-signed-statement builder                      *)
(* (server/links/scitt/create_hashed_signed_statement.py) and of the       *)
(* DataTrails link (server/links/datatrails/__init__.py).                  *)
(*                                                                         *)
(* Three specifications share the module:                                  *)
(*   Spec      create_hashed_signed_statement, called directly or by main  *)
(*   SpecAuth  DataTrailsAuth.get_token / _refresh_token under a clock     *)
(*   SpecRun   run() invoked repeatedly and concurrently on one vCon       *)
(*                                                                         *)
(* Cryptography is symbolic: a digest is the pair (algorithm, pre-image),  *)
(* a public point is a sequence of symbolic bytes <<curve, d, i>>, and a   *)
(* signature records the public point of the scalar that made it and the   *)
(* bytes it covers.                                                        *)
(***************************************************************************)
EXTENDS Integers, Sequences, FiniteSets, TLC

VARIABLES
    \* ---- create_hashed_signed_statement / main ----
    pc,                      \* position in main / the function
    caller,                  \* "none" | "direct" | "main"
    cli,                     \* the parsed command line and the files it names
    user,                    \* the keyword arguments the caller passed
    args,                    \* the function's parameters after default binding
    x_part, y_part,          \* locals of the function (lines 95-96)
    payload_hash_alg_label,  \* local of the function (lines 99-105)
    protected_header,        \* local of the function (lines 109-128)
    statement,               \* Sign1Message under construction (line 130)
    cose_key,                \* the signing COSE key (lines 133-143)
    signed_statement,        \* the function's return value
    outcome,                 \* "none" | "ok" | the exception raised
    failed_at,               \* stage at which main / the function failed
    sign_ops,                \* number of signatures computed
    meta_map_dict, signing_key, payload_hash,   \* locals of main
    output_file,             \* state of the output file on disk
    \* ---- DataTrailsAuth ----
    now,                     \* datetime.now()
    token, token_expiry,     \* DataTrailsAuth fields
    auth_pc,                 \* "idle" | "requesting"
    issued,                  \* the cached token's storing time and expires_in
    next_token,              \* id of the next token the endpoint hands out
    auth_requests,           \* POSTs sent to the auth endpoint
    last_call,               \* record of the last finished get_token call
    \* ---- run ----
    redis_tag,               \* datatrails_asset_id tag of the stored vCon
    vcon_stored,             \* whether Redis holds the vCon at all
    assets,                  \* assets created at DataTrails for the vCon
    events,                  \* events recorded, as the asset ids they name
    run_pc,                  \* per invocation: position in run
    run_tag,                 \* per invocation: tag of its in-memory vCon v
    run_asset,               \* per invocation: local asset_id
    runs_started             \* invocations started so far

stmt_vars == <<pc, caller, cli, user, args, x_part, y_part, payload_hash_alg_label,
               protected_header, statement, cose_key, signed_statement, outcome,
               failed_at, sign_ops, meta_map_dict, signing_key, payload_hash,
               output_file>>
auth_vars == <<now, token, token_expiry, auth_pc, issued, next_token,
               auth_requests, last_call>>
run_vars == <<redis_tag, vcon_stored, assets, events, run_pc, run_tag, run_asset,
              runs_started>>
vars == <<stmt_vars, auth_vars, run_vars>>

----------------------------------------------------------------------------
(* Python values that can sit in a header map.  The type tag comes first   *)
(* so that two values of different types compare unequal.                  *)

VNull == [t |-> "null", v |-> <<>>]
VInt(n) == [t |-> "int", v |-> n]
VTstr(s) == [t |-> "tstr", v |-> s]
VBstr(b) == [t |-> "bstr", v |-> b]
VMap(m) == [t |-> "map", v |-> m]
VAlg(a) == [t |-> "alg", v |-> a]
VName(n) == [t |-> "name", v |-> n]
\* a Python object cbor2 has no encoder for (a set, a custom class)
VObject == [t |-> "object", v |-> <<>>]
\* a parameter the caller left out, and a local name not yet bound
Omitted == [t |-> "omitted", v |-> <<>>]
Unbound == [t |-> "unbound", v |-> <<>>]
NoValue == [t |-> "none", v |-> <<>>]

Min(a, b) == IF a <= b THEN a ELSE b

\* Python's s[lo:hi] for 0 <= lo <= hi: clipped to the sequence, never an error
PySlice(s, lo, hi) == SubSeq(s, lo + 1, Min(hi, Len(s)))

----------------------------------------------------------------------------
(* Header labels, lines 24-49, and the pycose labels imported at 12-17.    *)

HEADER_LABEL_CWT == 13
HEADER_LABEL_CWT_ISSUER == 1
HEADER_LABEL_CWT_SUBJECT == 2
HEADER_LABEL_CWT_CNF == 8
HEADER_LABEL_CNF_COSE_KEY == 1
HEADER_LABEL_COSE_ALG_SHA256 == -16
HEADER_LABEL_COSE_ALG_SHA384 == -43
HEADER_LABEL_COSE_ALG_SHA512 == -44
HEADER_LABEL_COSE_ALG_SHA512_256 == -17
HEADER_LABEL_PAYLOAD_HASH_ALGORITHM == -6800
HEADER_LABEL_PAYLOAD_LOCATION == -6801
HEADER_LABEL_PAYLOAD_PRE_CONTENT_TYPE == -6802
HEADER_LABEL_META_MAP == -6804

\* pycose.headers.Algorithm and KID are COSE header labels 1 and 4
Algorithm == 1
KID == 4
\* pycose.keys.keyparam: COSE key parameter labels
KpKty == 1
KpKeyOps == 4
EC2KpCurve == -1
EC2KpX == -2
EC2KpY == -3
EC2KpD == -4

----------------------------------------------------------------------------
(* Key material (python-ecdsa).  A signing key is a curve and a private    *)
(* scalar d; to_string() of a key is the big-endian scalar, to_string() of *)
(* its verifying key is x || y, each baselen bytes long.                   *)

Curves == {"P192", "P256", "P384"}

BaseLen(curve) ==
    CASE curve = "P192" -> 24
      [] curve = "P256" -> 32
      [] curve = "P384" -> 48

MaxScalar == 2

SigningKeys == [curve : Curves, d : 1..MaxScalar]

\* the public point d*G of `curve`, as verifying_key.to_string() returns it
PublicPoint(curve, d) == [i \in 1..(2 * BaseLen(curve)) |-> <<curve, d, i>>]

VerifyingKeyToString(key) == PublicPoint(key.curve, key.d)

\* signing_key.to_string(): the scalar, symbolically
SigningKeyToString(key) == <<"d", key.curve, key.d>>

----------------------------------------------------------------------------
(* Digests (hashlib), symbolic and collision free: the digest of p under   *)
(* alg is alg prepended to p.  Content is a one-element sequence.          *)

SupportedAlgs == {"SHA-256", "SHA-384", "SHA-512"}
OtherAlgs == {"SHA-512/256", "MD5"}
HashAlgs == SupportedAlgs \cup OtherAlgs

DigestSize(alg) ==
    CASE alg = "SHA-256" -> 32
      [] alg = "SHA-384" -> 48
      [] alg = "SHA-512" -> 64

Contents == {<<"hello">>, <<"block32">>}

ContentLen(c) == IF c = <<"hello">> THEN 5 ELSE 32

Digest(p, alg) == <<alg>> \o p

IsDigest(p) == Len(p) > 1

ByteLen(p) == IF IsDigest(p) THEN DigestSize(Head(p)) ELSE ContentLen(p)

\* what callers hand over as `payload`: content, or (as main does) its SHA-256
Payloads == Contents \cup {Digest(c, "SHA-256") : c \in Contents}

----------------------------------------------------------------------------
(* create_hashed_signed_statement, lines 71-149.                           *)

\* defaults of the signature, lines 75-80
DefaultKidNone == VNull
DefaultKid == VBstr("testkey")
DefaultPayloadHashAlg == VTstr("SHA-256")

\* a keyword argument left out takes the default of the signature
Bind(given, default) == IF given = Omitted THEN default ELSE given

BindParameters(u) ==
    [issuer |-> u.issuer,
     signing_key |-> u.signing_key,
     subject |-> u.subject,
     kid |-> Bind(u.kid, DefaultKid),
     meta_map |-> Bind(u.meta_map, VNull),
     payload |-> Bind(u.payload, VNull),
     payload_hash_alg |-> Bind(u.payload_hash_alg, DefaultPayloadHashAlg),
     payload_location |-> Bind(u.payload_location, VNull),
     pre_image_content_type |-> Bind(u.pre_image_content_type, VNull)]

\* lines 95-96
XPartTruncated(xy_parts) == PySlice(xy_parts, 0, 31)
XPart(xy_parts) == PySlice(xy_parts, 0, 32)
YPart(xy_parts) == PySlice(xy_parts, 32, 64)

\* lines 99-105: a match statement without a default case; with no case
\* matching, the name payload_hash_alg_label stays unbound
MatchHashAlgDefaultsToNone(alg) ==
    CASE alg = VTstr("SHA-256") -> VInt(HEADER_LABEL_COSE_ALG_SHA256)
      [] alg = VTstr("SHA-384") -> VInt(HEADER_LABEL_COSE_ALG_SHA384)
      [] alg = VTstr("SHA-512") -> VInt(HEADER_LABEL_COSE_ALG_SHA512)
      [] OTHER -> VNull
MatchHashAlgWrongCode(alg) ==
    CASE alg = VTstr("SHA-256") -> VInt(HEADER_LABEL_COSE_ALG_SHA256)
      [] alg = VTstr("SHA-384") -> VInt(HEADER_LABEL_COSE_ALG_SHA512_256)
      [] alg = VTstr("SHA-512") -> VInt(HEADER_LABEL_COSE_ALG_SHA512)
      [] OTHER -> Unbound
MatchHashAlg(alg) ==
    CASE alg = VTstr("SHA-256") -> VInt(HEADER_LABEL_COSE_ALG_SHA256)
      [] alg = VTstr("SHA-384") -> VInt(HEADER_LABEL_COSE_ALG_SHA384)
      [] alg = VTstr("SHA-512") -> VInt(HEADER_LABEL_COSE_ALG_SHA512)
      [] OTHER -> Unbound

\* lines 117-122
CnfCoseKey(x, y) ==
    (KpKty :> VName("KtyEC2")) @@ (EC2KpCurve :> VName("P256"))
    @@ (EC2KpX :> VBstr(x)) @@ (EC2KpY :> VBstr(y))

\* lines 113-124
CwtClaims(a, x, y) ==
    (HEADER_LABEL_CWT_ISSUER :> a.issuer)
    @@ (HEADER_LABEL_CWT_SUBJECT :> a.subject)
    @@ (HEADER_LABEL_CWT_CNF :>
            VMap(HEADER_LABEL_CNF_COSE_KEY :> VMap(CnfCoseKey(x, y))))

\* lines 109-128: every label is a key of the dict literal, whatever its value
ProtectedHeader(a, x, y, label) ==
    (Algorithm :> VAlg("Es256"))
    @@ (KID :> a.kid)
    @@ (HEADER_LABEL_PAYLOAD_PRE_CONTENT_TYPE :> a.pre_image_content_type)
    @@ (HEADER_LABEL_CWT :> VMap(CwtClaims(a, x, y)))
    @@ (HEADER_LABEL_PAYLOAD_HASH_ALGORITHM :> label)
    @@ (HEADER_LABEL_PAYLOAD_LOCATION :> a.payload_location)
    @@ (HEADER_LABEL_META_MAP :> a.meta_map)

\* lines 133-140
CoseKeyDict(key, x, y) ==
    (KpKty :> VName("KtyEC2")) @@ (EC2KpCurve :> VName("P256"))
    @@ (KpKeyOps :> VName("SignOp,VerifyOp"))
    @@ (EC2KpD :> VBstr(SigningKeyToString(key)))
    @@ (EC2KpX :> VBstr(x)) @@ (EC2KpY :> VBstr(y))

\* cbor2 encodes None, integers, strings, byte strings and maps of them
HeaderEncodable(h) == \A l \in DOMAIN h : h[l].t # "object"

\* Es256 signs with the scalar EC2KpD on P-256, whatever curve it came from
SignEs256(d_bytes, tbs) == [pub |-> PublicPoint("P256", d_bytes[3]), over |-> tbs]

\* the Sig_structure input: protected header and payload (external_aad empty)
ToBeSigned(st) == <<st.phdr, st.payload>>

\* an exception leaves the function; neither caller catches it
Raise(exc, stage) ==
    /\ pc' = "failed"
    /\ outcome' = exc
    /\ failed_at' = stage

\* a direct call, as a library user (or test) makes it
Call ==
    /\ pc = "idle"
    /\ \E key \in SigningKeys, p \in Payloads,
          alg \in {VTstr(a) : a \in HashAlgs} \cup {Omitted},
          k \in {Omitted, VTstr("key-1"), VBstr("key-2")},
          loc \in {Omitted, VTstr("https://host/payload")},
          ct \in {Omitted, VTstr("application/vcon+json")},
          mm \in {Omitted, VMap(<<>>), VMap([m \in {"vcon_uuid"} |-> "u-1"]),
                  VObject} :
          user' = [issuer |-> VTstr("issuer"), subject |-> VTstr("subject"),
                   signing_key |-> key, kid |-> k, meta_map |-> mm,
                   payload |-> VBstr(p), payload_hash_alg |-> alg,
                   payload_location |-> loc, pre_image_content_type |-> ct]
    /\ args' = BindParameters(user')
    /\ caller' = "direct"
    /\ pc' = "derive_key"
    /\ UNCHANGED <<cli, x_part, y_part, payload_hash_alg_label,
                   protected_header, statement, cose_key, signed_statement,
                   outcome, failed_at, sign_ops, meta_map_dict, signing_key,
                   payload_hash, output_file>>

\* lines 88-96
FnDeriveKey ==
    /\ pc = "derive_key"
    /\ LET xy_parts == VerifyingKeyToString(args.signing_key) IN
          /\ x_part' = XPart(xy_parts)
          /\ y_part' = YPart(xy_parts)
    /\ pc' = "match_alg"
    /\ UNCHANGED <<caller, cli, user, args, payload_hash_alg_label, protected_header,
                   statement, cose_key, signed_statement, outcome, failed_at,
                   sign_ops, meta_map_dict, signing_key, payload_hash,
                   output_file>>

\* lines 99-105
FnMatchAlg ==
    /\ pc = "match_alg"
    /\ payload_hash_alg_label' = MatchHashAlg(args.payload_hash_alg)
    /\ pc' = "build_header"
    /\ UNCHANGED <<caller, cli, user, args, x_part, y_part, protected_header,
                   statement, cose_key, signed_statement, outcome, failed_at,
                   sign_ops, meta_map_dict, signing_key, payload_hash,
                   output_file>>

\* lines 109-128: reading the unbound local at line 125 raises
FnBuildHeader ==
    /\ pc = "build_header"
    /\ IF payload_hash_alg_label = Unbound
         THEN /\ Raise("UnboundLocalError", "header")
              /\ UNCHANGED protected_header
         ELSE /\ protected_header' =
                     ProtectedHeader(args, x_part, y_part, payload_hash_alg_label)
              /\ pc' = "make_statement"
              /\ UNCHANGED <<outcome, failed_at>>
    /\ UNCHANGED <<caller, cli, user, args, x_part, y_part, payload_hash_alg_label,
                   statement, cose_key, signed_statement, sign_ops,
                   meta_map_dict, signing_key, payload_hash, output_file>>

\* line 130: the payload argument goes into the message as it is
FnMakeStatement ==
    /\ pc = "make_statement"
    /\ statement' = [phdr |-> protected_header, payload |-> args.payload]
    /\ pc' = "make_cose_key"
    /\ UNCHANGED <<caller, cli, user, args, x_part, y_part, payload_hash_alg_label,
                   protected_header, cose_key, signed_statement, outcome,
                   failed_at, sign_ops, meta_map_dict, signing_key,
                   payload_hash, output_file>>

\* lines 133-143
FnMakeCoseKey ==
    /\ pc = "make_cose_key"
    /\ cose_key' = CoseKeyDict(args.signing_key, x_part, y_part)
    /\ pc' = "encode"
    /\ UNCHANGED <<caller, cli, user, args, x_part, y_part, payload_hash_alg_label,
                   protected_header, statement, signed_statement, outcome,
                   failed_at, sign_ops, meta_map_dict, signing_key,
                   payload_hash, output_file>>

\* line 147, success: the header is encoded, then the signature computed
FnEncode ==
    /\ pc = "encode"
    /\ HeaderEncodable(statement.phdr)
    /\ signed_statement' =
          [phdr |-> statement.phdr, payload |-> statement.payload,
           signature |-> SignEs256(cose_key[EC2KpD].v, ToBeSigned(statement))]
    /\ sign_ops' = sign_ops + 1
    /\ pc' = "return"
    /\ UNCHANGED <<caller, cli, user, args, x_part, y_part, payload_hash_alg_label,
                   protected_header, statement, cose_key, outcome, failed_at,
                   meta_map_dict, signing_key, payload_hash, output_file>>

\* line 147, failure: a header value cbor2 cannot encode raises before the
\* signature is computed; a scalar and coordinates that are not a P-256 key
\* may be refused by the signing library
FnEncodeError ==
    /\ pc = "encode"
    /\ \/ /\ ~HeaderEncodable(statement.phdr)
          /\ Raise("CBOREncodeError", "encode")
       \/ /\ HeaderEncodable(statement.phdr)
          /\ args.signing_key.curve # "P256"
          /\ Raise("CoseKeyError", "encode")
    /\ UNCHANGED <<caller, cli, user, args, x_part, y_part, payload_hash_alg_label,
                   protected_header, statement, cose_key, signed_statement,
                   sign_ops, meta_map_dict, signing_key, payload_hash,
                   output_file>>

\* line 149
FnReturn ==
    /\ pc = "return"
    /\ outcome' = "ok"
    /\ pc' = IF caller = "main" THEN "open_output" ELSE "done"
    /\ UNCHANGED <<caller, cli, user, args, x_part, y_part, payload_hash_alg_label,
                   protected_header, statement, cose_key, signed_statement,
                   failed_at, sign_ops, meta_map_dict, signing_key,
                   payload_hash, output_file>>

----------------------------------------------------------------------------
(* main, lines 152-251.                                                    *)

\* argparse defaults, lines 158-223; an option without default parses to None
ArgparseDefaultKid == VBstr("testkey")
ArgparseDefaultContentType == VTstr("application/json")

KeyFiles ==
    {[ok |-> TRUE, key |-> k] : k \in SigningKeys}
    \cup {[ok |-> FALSE, key |-> [curve |-> "P256", d |-> 1]]}
PayloadFiles ==
    {[ok |-> TRUE, content |-> c] : c \in Contents}
    \cup {[ok |-> FALSE, content |-> <<"hello">>]}

NoCli == [kid |-> Omitted, content_type |-> Omitted, issuer |-> Omitted,
          subject |-> Omitted, payload_location |-> Omitted,
          argv_kid |-> Omitted, meta_map_file |-> "absent",
          signing_key_file |-> [ok |-> FALSE, key |-> [curve |-> "P256", d |-> 1]],
          payload_file |-> [ok |-> FALSE, content |-> <<"hello">>]]

\* line 225
MainParseArgs ==
    /\ pc = "idle"
    /\ \E k \in {Omitted, VTstr("key-1")},
          ct \in {Omitted, VTstr("application/vcon+json")},
          iss \in {Omitted, VTstr("issuer")},
          loc \in {Omitted, VTstr("https://host/payload")},
          mf \in {"absent", "valid", "malformed"},
          kf \in KeyFiles, pf \in PayloadFiles :
          cli' = [kid |-> Bind(k, ArgparseDefaultKid),
                  content_type |-> Bind(ct, ArgparseDefaultContentType),
                  issuer |-> Bind(iss, VNull),
                  subject |-> VTstr("subject"),
                  payload_location |-> Bind(loc, VNull),
                  argv_kid |-> k,
                  meta_map_file |-> mf,
                  signing_key_file |-> kf,
                  payload_file |-> pf]
    /\ caller' = "main"
    /\ pc' = "load_meta"
    /\ UNCHANGED <<user, args, x_part, y_part, payload_hash_alg_label,
                   protected_header, statement, cose_key, signed_statement,
                   outcome, failed_at, sign_ops, meta_map_dict, signing_key,
                   payload_hash, output_file>>

\* lines 227-232
MainLoadMetaMap ==
    /\ pc = "load_meta"
    /\ IF cli.meta_map_file = "malformed"
         THEN /\ Raise("JSONDecodeError", "metadata")
              /\ UNCHANGED meta_map_dict
         ELSE /\ meta_map_dict' =
                    IF cli.meta_map_file = "valid"
                      THEN VMap([m \in {"vcon_uuid"} |-> "u-1"])
                      ELSE VMap(<<>>)
              /\ pc' = "open_key"
              /\ UNCHANGED <<outcome, failed_at>>
    /\ UNCHANGED <<caller, cli, user, args, x_part, y_part,
                   payload_hash_alg_label, protected_header, statement,
                   cose_key, signed_statement, sign_ops, signing_key,
                   payload_hash, output_file>>

\* line 234 (open_signing_key, lines 51-60)
MainOpenSigningKey ==
    /\ pc = "open_key"
    /\ IF cli.signing_key_file.ok
         THEN /\ signing_key' = cli.signing_key_file.key
              /\ pc' = "read_payload"
              /\ UNCHANGED <<outcome, failed_at>>
         ELSE /\ Raise("KeyFileError", "key")
              /\ UNCHANGED signing_key
    /\ UNCHANGED <<caller, cli, user, args, x_part, y_part,
                   payload_hash_alg_label, protected_header, statement,
                   cose_key, signed_statement, sign_ops, meta_map_dict,
                   payload_hash, output_file>>

\* lines 235-236 (read_file, lines 63-68)
MainReadPayload ==
    /\ pc = "read_payload"
    /\ IF cli.payload_file.ok
         THEN /\ payload_hash' = Digest(cli.payload_file.content, "SHA-256")
              /\ pc' = "call"
              /\ UNCHANGED <<outcome, failed_at>>
         ELSE /\ Raise("PayloadFileError", "payload")
              /\ UNCHANGED payload_hash
    /\ UNCHANGED <<caller, cli, user, args, x_part, y_part,
                   payload_hash_alg_label, protected_header, statement,
                   cose_key, signed_statement, sign_ops, meta_map_dict,
                   signing_key, output_file>>

\* lines 238-248: the output file is not touched before the call
MainCallAfterOpeningOutput ==
    /\ pc = "call"
    /\ user' = [issuer |-> cli.issuer, subject |-> cli.subject,
                signing_key |-> signing_key, kid |-> cli.kid,
                meta_map |-> meta_map_dict, payload |-> VBstr(payload_hash),
                payload_hash_alg |-> VTstr("SHA-256"),
                payload_location |-> cli.payload_location,
                pre_image_content_type |-> cli.content_type]
    /\ args' = BindParameters(user')
    /\ pc' = "derive_key"
    /\ output_file' = [state |-> "truncated", content |-> NoValue]
    /\ UNCHANGED <<caller, cli, x_part, y_part, payload_hash_alg_label,
                   protected_header, statement, cose_key, signed_statement,
                   outcome, failed_at, sign_ops, meta_map_dict, signing_key,
                   payload_hash>>
MainCall ==
    /\ pc = "call"
    /\ user' = [issuer |-> cli.issuer, subject |-> cli.subject,
                signing_key |-> signing_key, kid |-> cli.kid,
                meta_map |-> meta_map_dict, payload |-> VBstr(payload_hash),
                payload_hash_alg |-> VTstr("SHA-256"),
                payload_location |-> cli.payload_location,
                pre_image_content_type |-> cli.content_type]
    /\ args' = BindParameters(user')
    /\ pc' = "derive_key"
    /\ UNCHANGED <<caller, cli, x_part, y_part, payload_hash_alg_label,
                   protected_header, statement, cose_key, signed_statement,
                   outcome, failed_at, sign_ops, meta_map_dict, signing_key,
                   payload_hash, output_file>>

\* line 250: open(..., "wb") creates or truncates the file, or fails
MainOpenOutput ==
    /\ pc = "open_output"
    /\ \/ /\ output_file' = [state |-> "truncated", content |-> NoValue]
          /\ pc' = "write_output"
          /\ UNCHANGED <<outcome, failed_at>>
       \/ /\ Raise("OutputOpenError", "output_open")
          /\ UNCHANGED output_file
    /\ UNCHANGED <<caller, cli, user, args, x_part, y_part,
                   payload_hash_alg_label, protected_header, statement,
                   cose_key, signed_statement, sign_ops, meta_map_dict,
                   signing_key, payload_hash>>

\* line 251
MainWriteOutput ==
    /\ pc = "write_output"
    /\ \/ /\ output_file' = [state |-> "written", content |-> signed_statement]
          /\ pc' = "done"
          /\ UNCHANGED <<outcome, failed_at>>
       \/ /\ Raise("OutputWriteError", "output_write")
          /\ UNCHANGED output_file
    /\ UNCHANGED <<caller, cli, user, args, x_part, y_part,
                   payload_hash_alg_label, protected_header, statement,
                   cose_key, signed_statement, sign_ops, meta_map_dict,
                   signing_key, payload_hash>>

----------------------------------------------------------------------------
(* DataTrailsAuth, datatrails/__init__.py lines 29-84.  token = 0 is None. *)

RefreshMargin == 300
MaxTime == 800
MaxRequests == 3
TickSteps == {100, 150}
ExpiresIn == {200, 300, 400, 500}

\* line 56
NeedsRefresh(tok, t, expiry) == tok = 0 \/ t >= expiry

\* lines 75-77
TokenExpiryWithoutMargin(t, expires_in) == t + expires_in
TokenExpiry(t, expires_in) == t + expires_in - RefreshMargin

\* the clock runs on, also while a request is in flight
Tick ==
    /\ \E dt \in TickSteps : now + dt <= MaxTime /\ now' = now + dt
    /\ UNCHANGED <<token, token_expiry, auth_pc, issued, next_token,
                   auth_requests, last_call>>

\* lines 56 and 58: the cached token is returned
GetTokenCached ==
    /\ auth_pc = "idle"
    /\ ~NeedsRefresh(token, now, token_expiry)
    /\ last_call' = [kind |-> "cached", at |-> now, prev_token |-> token,
                     prev_expires |-> issued.at + issued.expires_in,
                     returned |-> token, requests |-> 0]
    /\ UNCHANGED <<now, token, token_expiry, auth_pc, issued, next_token,
                   auth_requests>>

\* lines 56-57 and 64-69: the POST to the auth endpoint goes out
GetTokenRefresh ==
    /\ auth_pc = "idle"
    /\ NeedsRefresh(token, now, token_expiry)
    /\ auth_requests < MaxRequests
    /\ auth_requests' = auth_requests + 1
    /\ auth_pc' = "requesting"
    /\ last_call' = [kind |-> "pending", at |-> now, prev_token |-> token,
                     prev_expires |-> issued.at + issued.expires_in,
                     returned |-> 0, requests |-> 1]
    /\ UNCHANGED <<now, token, token_expiry, issued, next_token>>

\* lines 70-77: the response carries access_token and expires_in
RefreshResponse ==
    /\ auth_pc = "requesting"
    /\ \E e \in ExpiresIn :
          /\ token_expiry' = TokenExpiry(now, e)
          /\ issued' = [at |-> now, expires_in |-> e]
    /\ token' = next_token
    /\ next_token' = next_token + 1
    /\ auth_pc' = "saving"
    /\ UNCHANGED <<now, auth_requests, last_call>>

\* line 70: raise_for_status raises, get_token returns nothing
RefreshHttpError ==
    /\ auth_pc = "requesting"
    /\ auth_pc' = "idle"
    /\ last_call' = [last_call EXCEPT !.kind = "raised"]
    /\ UNCHANGED <<now, token, token_expiry, issued, next_token, auth_requests>>

\* lines 80-84 and 58: the token file is written, the new token returned
SaveTokenFile ==
    /\ auth_pc = "saving"
    /\ auth_pc' = "idle"
    /\ last_call' = [last_call EXCEPT !.kind = "refreshed", !.returned = token]
    /\ UNCHANGED <<now, token, token_expiry, issued, next_token, auth_requests>>

\* lines 80-84: writing the token file raises; the fields are already set
SaveTokenFileError ==
    /\ auth_pc = "saving"
    /\ auth_pc' = "idle"
    /\ last_call' = [last_call EXCEPT !.kind = "raised"]
    /\ UNCHANGED <<now, token, token_expiry, issued, next_token, auth_requests>>

----------------------------------------------------------------------------
(* run, datatrails/__init__.py lines 155-260, for one vCon.  A tag or an   *)
(* asset id of 0 is "none".  Each invocation works on its own copy v of    *)
(* the vCon, which reaches Redis only at store_vcon.                       *)

MaxProcs == 2
MaxRuns == 3
Procs == 1..MaxProcs

\* lines 179-180: ValueError before anything is read
RunBadOptions(p) ==
    /\ run_pc[p] = "idle"
    /\ runs_started < MaxRuns
    /\ runs_started' = runs_started + 1
    /\ UNCHANGED <<redis_tag, vcon_stored, assets, events, run_pc, run_tag,
                   run_asset>>

\* lines 185-199: get_vcon, then asset_id = v.get_tag("datatrails_asset_id")
RunStart(p) ==
    /\ run_pc[p] = "idle"
    /\ runs_started < MaxRuns
    /\ runs_started' = runs_started + 1
    /\ IF vcon_stored
         THEN /\ run_tag' = [run_tag EXCEPT ![p] = redis_tag]
              /\ run_asset' = [run_asset EXCEPT ![p] = redis_tag]
              /\ run_pc' = [run_pc EXCEPT ![p] = "check_asset"]
         ELSE UNCHANGED <<run_tag, run_asset, run_pc>>
    /\ UNCHANGED <<redis_tag, vcon_stored, assets, events>>

\* line 202
AssetMissing(asset_id) == asset_id = 0

\* lines 202-224: create_asset succeeds, the tags go onto the copy v
RunCreateAsset(p) ==
    /\ run_pc[p] = "check_asset"
    /\ AssetMissing(run_asset[p])
    /\ LET id == Cardinality(assets) + 1 IN
          /\ assets' = assets \cup {id}
          /\ run_asset' = [run_asset EXCEPT ![p] = id]
          /\ run_tag' = [run_tag EXCEPT ![p] = id]
    /\ run_pc' = [run_pc EXCEPT ![p] = "create_event"]
    /\ UNCHANGED <<redis_tag, vcon_stored, events, runs_started>>

\* lines 218-220: get_token or the POST raises, run ends with the exception
RunCreateAssetError(p) ==
    /\ run_pc[p] = "check_asset"
    /\ AssetMissing(run_asset[p])
    /\ run_pc' = [run_pc EXCEPT ![p] = "idle"]
    /\ UNCHANGED <<redis_tag, vcon_stored, assets, events, run_tag, run_asset,
                   runs_started>>

\* lines 227-228
RunAssetFound(p) ==
    /\ run_pc[p] = "check_asset"
    /\ ~AssetMissing(run_asset[p])
    /\ run_pc' = [run_pc EXCEPT ![p] = "create_event"]
    /\ UNCHANGED <<redis_tag, vcon_stored, assets, events, run_tag, run_asset,
                   runs_started>>

\* lines 233-251
RunCreateEvent(p) ==
    /\ run_pc[p] = "create_event"
    /\ events' = Append(events, run_asset[p])
    /\ run_pc' = [run_pc EXCEPT ![p] = "store"]
    /\ UNCHANGED <<redis_tag, vcon_stored, assets, run_tag, run_asset,
                   runs_started>>

\* lines 247-249: create_event raises; v, with its new tags, is dropped
RunCreateEventError(p) ==
    /\ run_pc[p] = "create_event"
    /\ run_pc' = [run_pc EXCEPT ![p] = "idle"]
    /\ UNCHANGED <<redis_tag, vcon_stored, assets, events, run_tag, run_asset,
                   runs_started>>

\* lines 258-260
RunStoreVcon(p) ==
    /\ run_pc[p] = "store"
    /\ redis_tag' = run_tag[p]
    /\ run_pc' = [run_pc EXCEPT ![p] = "idle"]
    /\ UNCHANGED <<vcon_stored, assets, events, run_tag, run_asset,
                   runs_started>>

\* line 258: store_vcon raises
RunStoreVconError(p) ==
    /\ run_pc[p] = "store"
    /\ run_pc' = [run_pc EXCEPT ![p] = "idle"]
    /\ UNCHANGED <<redis_tag, vcon_stored, assets, events, run_tag, run_asset,
                   runs_started>>

----------------------------------------------------------------------------
(* Initial states and specifications.                                      *)

StmtInit ==
    /\ pc = "idle"
    /\ caller = "none"
    /\ cli = NoCli
    /\ user = NoValue
    /\ args = NoValue
    /\ x_part = <<>>
    /\ y_part = <<>>
    /\ payload_hash_alg_label = Unbound
    /\ protected_header = NoValue
    /\ statement = NoValue
    /\ cose_key = NoValue
    /\ signed_statement = NoValue
    /\ outcome = "none"
    /\ failed_at = "none"
    /\ sign_ops = 0
    /\ meta_map_dict = NoValue
    /\ signing_key = NoValue
    /\ payload_hash = <<>>
    /\ output_file = [state |-> "untouched", content |-> NoValue]

\* lines 43-47
AuthInit ==
    /\ now = 0
    /\ token = 0
    /\ token_expiry = 0
    /\ auth_pc = "idle"
    /\ issued = [at |-> 0, expires_in |-> 0]
    /\ next_token = 1
    /\ auth_requests = 0
    /\ last_call = [kind |-> "none", at |-> 0, prev_token |-> 0,
                    prev_expires |-> 0, returned |-> 0, requests |-> 0]

RunInit ==
    /\ redis_tag = 0
    /\ vcon_stored \in BOOLEAN
    /\ assets = {}
    /\ events = <<>>
    /\ run_pc = [p \in Procs |-> "idle"]
    /\ run_tag = [p \in Procs |-> 0]
    /\ run_asset = [p \in Procs |-> 0]
    /\ runs_started = 0

RunFixed ==
    /\ redis_tag = 0
    /\ vcon_stored = TRUE
    /\ assets = {}
    /\ events = <<>>
    /\ run_pc = [p \in Procs |-> "idle"]
    /\ run_tag = [p \in Procs |-> 0]
    /\ run_asset = [p \in Procs |-> 0]
    /\ runs_started = 0

Init == StmtInit /\ AuthInit /\ RunFixed

Next ==
    \/ (Call /\ UNCHANGED <<auth_vars, run_vars>>)
    \/ (FnDeriveKey /\ UNCHANGED <<auth_vars, run_vars>>)
    \/ (FnMatchAlg /\ UNCHANGED <<auth_vars, run_vars>>)
    \/ (FnBuildHeader /\ UNCHANGED <<auth_vars, run_vars>>)
    \/ (FnMakeStatement /\ UNCHANGED <<auth_vars, run_vars>>)
    \/ (FnMakeCoseKey /\ UNCHANGED <<auth_vars, run_vars>>)
    \/ (FnEncode /\ UNCHANGED <<auth_vars, run_vars>>)
    \/ (FnEncodeError /\ UNCHANGED <<auth_vars, run_vars>>)
    \/ (FnReturn /\ UNCHANGED <<auth_vars, run_vars>>)
    \/ (MainParseArgs /\ UNCHANGED <<auth_vars, run_vars>>)
    \/ (MainLoadMetaMap /\ UNCHANGED <<auth_vars, run_vars>>)
    \/ (MainOpenSigningKey /\ UNCHANGED <<auth_vars, run_vars>>)
    \/ (MainReadPayload /\ UNCHANGED <<auth_vars, run_vars>>)
    \/ (MainCall /\ UNCHANGED <<auth_vars, run_vars>>)
    \/ (MainOpenOutput /\ UNCHANGED <<auth_vars, run_vars>>)
    \/ (MainWriteOutput /\ UNCHANGED <<auth_vars, run_vars>>)

Spec == Init /\ [][Next]_vars

InitAuth == StmtInit /\ AuthInit /\ RunFixed

NextAuth ==
    \/ (Tick /\ UNCHANGED <<stmt_vars, run_vars>>)
    \/ (GetTokenCached /\ UNCHANGED <<stmt_vars, run_vars>>)
    \/ (GetTokenRefresh /\ UNCHANGED <<stmt_vars, run_vars>>)
    \/ (RefreshResponse /\ UNCHANGED <<stmt_vars, run_vars>>)
    \/ (RefreshHttpError /\ UNCHANGED <<stmt_vars, run_vars>>)
    \/ (SaveTokenFile /\ UNCHANGED <<stmt_vars, run_vars>>)
    \/ (SaveTokenFileError /\ UNCHANGED <<stmt_vars, run_vars>>)

SpecAuth == InitAuth /\ [][NextAuth]_vars

InitRun == StmtInit /\ AuthInit /\ RunInit

NextRun ==
    \E p \in Procs :
        \/ (RunBadOptions(p) /\ UNCHANGED <<stmt_vars, auth_vars>>)
        \/ (RunStart(p) /\ UNCHANGED <<stmt_vars, auth_vars>>)
        \/ (RunCreateAsset(p) /\ UNCHANGED <<stmt_vars, auth_vars>>)
        \/ (RunCreateAssetError(p) /\ UNCHANGED <<stmt_vars, auth_vars>>)
        \/ (RunAssetFound(p) /\ UNCHANGED <<stmt_vars, auth_vars>>)
        \/ (RunCreateEvent(p) /\ UNCHANGED <<stmt_vars, auth_vars>>)
        \/ (RunCreateEventError(p) /\ UNCHANGED <<stmt_vars, auth_vars>>)
        \/ (RunStoreVcon(p) /\ UNCHANGED <<stmt_vars, auth_vars>>)
        \/ (RunStoreVconError(p) /\ UNCHANGED <<stmt_vars, auth_vars>>)

SpecRun == InitRun /\ [][NextRun]_vars

----------------------------------------------------------------------------
(* Properties of create_hashed_signed_statement and main, under Spec.      *)

\* the function has been entered and its parameters bound
Called == args # NoValue

HeaderBuilt == protected_header # NoValue

Returned == signed_statement # NoValue

\* ECDSA verification of `sig` over `tbs` under the public key x || y
Verify(x, y, tbs, sig) == sig.pub = x \o y /\ sig.over = tbs

\* the confirmation key of a header: CWT label 13 -> cnf 8 -> COSE_Key 1
CnfKeyOf(h) ==
    h[HEADER_LABEL_CWT].v[HEADER_LABEL_CWT_CNF].v[HEADER_LABEL_CNF_COSE_KEY].v

\* C1: a call with a payload_hash_alg outside SHA-256 / SHA-384 / SHA-512
\* never builds a header, a statement or a signature and never touches a
\* file; it can only end in an exception, raised at header construction.
C1_UnsupportedAlgRaises ==
    (Called /\ args.payload_hash_alg.v \notin SupportedAlgs) =>
        /\ protected_header = NoValue
        /\ statement = NoValue
        /\ cose_key = NoValue
        /\ signed_statement = NoValue
        /\ sign_ops = 0
        /\ output_file.state = "untouched"
        /\ outcome # "ok"
        /\ pc \in {"derive_key", "match_alg", "build_header", "failed"}
        /\ (pc = "failed" =>
                outcome = "UnboundLocalError" /\ failed_at = "header")

C1_Witness ==
    /\ Called
    /\ args.payload_hash_alg.v \notin SupportedAlgs
    /\ pc = "failed"
    /\ outcome = "UnboundLocalError"

\* C2: for a supported algorithm the header, and the header of the returned
\* statement, carry under -6800 that algorithm's code: SHA-256 -> -16,
\* SHA-384 -> -43, SHA-512 -> -44.
C2_HashAlgLabel ==
    (HeaderBuilt /\ args.payload_hash_alg.v \in SupportedAlgs) =>
        LET alg == args.payload_hash_alg.v
            code == CASE alg = "SHA-256" -> -16
                      [] alg = "SHA-384" -> -43
                      [] alg = "SHA-512" -> -44
        IN  /\ -6800 \in DOMAIN protected_header
            /\ protected_header[-6800] = VInt(code)
            /\ (Returned => signed_statement.phdr[-6800] = VInt(code))

C2_Witness ==
    /\ Returned
    /\ args.payload_hash_alg.v = "SHA-384"
    /\ signed_statement.phdr[-6800] = VInt(-43)

\* C3: the payload field of the returned statement is the digest of the
\* supplied payload under payload_hash_alg, has that algorithm's digest
\* length, and is not the supplied payload itself.
C3_PayloadIsDigest ==
    Returned =>
        LET alg == args.payload_hash_alg.v
            p == signed_statement.payload.v
        IN  /\ p = Digest(user.payload.v, alg)
            /\ ByteLen(p) = DigestSize(alg)
            /\ p # user.payload.v

\* C4: for a P-256 signing key the returned statement's signature verifies
\* under the key (EC2, P-256, x, y) embedded in the confirmation claim, and
\* that key is the public point of the signing key.
C4_SignatureVerifiesUnderCnfKey ==
    (Returned /\ args.signing_key.curve = "P256") =>
        LET cnf == CnfKeyOf(signed_statement.phdr)
            x == cnf[EC2KpX].v
            y == cnf[EC2KpY].v
        IN  /\ cnf[KpKty] = VName("KtyEC2")
            /\ cnf[EC2KpCurve] = VName("P256")
            /\ Verify(x, y, ToBeSigned(signed_statement),
                      signed_statement.signature)
            /\ x \o y = PublicPoint("P256", args.signing_key.d)

C4_Witness ==
    /\ Returned
    /\ args.signing_key.curve = "P256"
    /\ pc = "done"
    /\ sign_ops = 1

\* C5: in main the output file is touched only once the function has
\* returned a signed statement; when metadata loading, key loading, payload
\* reading, header construction, encoding or signing fails, it is untouched.
C5_OutputOnlyAfterStatement ==
    caller = "main" =>
        /\ (output_file.state # "untouched" =>
                (Returned /\ pc \in {"write_output", "done", "failed"}))
        /\ ((pc = "failed" /\ failed_at \in {"metadata", "key", "payload",
                                             "header", "encode"})
                => output_file.state = "untouched")
        /\ (output_file.state = "written" =>
                output_file.content = signed_statement)

C5_Witness ==
    /\ caller = "main"
    /\ pc = "failed"
    /\ failed_at = "encode"
    /\ output_file.state = "untouched"

\* C6: the embedded x and y are 32 bytes each and together the whole public
\* point of the signing key; a key whose public point is not 64 bytes is
\* rejected before any header or COSE key is made from it.
C6_CoordinatesAreWholePoint ==
    /\ HeaderBuilt =>
          LET cnf == CnfKeyOf(protected_header) IN
              /\ Len(cnf[EC2KpX].v) = 32
              /\ Len(cnf[EC2KpY].v) = 32
              /\ cnf[EC2KpX].v \o cnf[EC2KpY].v
                     = VerifyingKeyToString(args.signing_key)
    /\ (Called /\ Len(VerifyingKeyToString(args.signing_key)) # 64) =>
          /\ protected_header = NoValue
          /\ cose_key = NoValue
          /\ signed_statement = NoValue

\* C7: without a kid (keyword argument, or --kid on the command line) the
\* header's key id is the bytes "testkey"; with one it is the value given.
C7_KidDefault ==
    HeaderBuilt =>
        LET supplied == IF caller = "main" THEN cli.argv_kid ELSE user.kid IN
            /\ KID \in DOMAIN protected_header
            /\ protected_header[KID] =
                   IF supplied = Omitted THEN VBstr("testkey") ELSE supplied

C7_Witness ==
    /\ Returned
    /\ caller = "direct"
    /\ user.kid = Omitted
    /\ signed_statement.phdr[KID] = VBstr("testkey")

\* C9: a hash-envelope parameter (payload_location, pre_image_content_type,
\* meta_map) that the caller does not pass has no entry in the header map.
C9_OmittedLabelAbsent ==
    HeaderBuilt =>
        /\ (user.payload_location = Omitted =>
                -6801 \notin DOMAIN protected_header)
        /\ (user.pre_image_content_type = Omitted =>
                -6802 \notin DOMAIN protected_header)
        /\ (user.meta_map = Omitted =>
                -6804 \notin DOMAIN protected_header)

----------------------------------------------------------------------------
(* Property of DataTrailsAuth.get_token, under SpecAuth.                   *)

\* C8: a get_token call returns the cached token, without a request to the
\* auth endpoint, exactly when a token is cached and the time of the call is
\* more than 300 s before that token's expiry (storing time + expires_in);
\* otherwise it sends one request, and if it returns, returns the new token.
C8_RefreshAheadOfExpiry ==
    LET c == last_call
        in_margin == c.prev_token # 0 /\ c.at + 300 < c.prev_expires
    IN  /\ c.kind = "cached" =>
              in_margin /\ c.returned = c.prev_token /\ c.requests = 0
        /\ c.kind \in {"pending", "refreshed", "raised"} =>
              ~in_margin /\ c.requests = 1
        /\ c.kind = "refreshed" =>
              /\ c.returned = token
              /\ c.returned # c.prev_token
              /\ issued.at >= c.at

C8_Witness ==
    /\ last_call.kind = "refreshed"
    /\ last_call.prev_token # 0
    /\ last_call.at < last_call.prev_expires
    /\ last_call.at + 300 >= last_call.prev_expires

----------------------------------------------------------------------------
(* Property of run, under SpecRun.                                         *)

\* C10: over any sequence or interleaving of run invocations on the vCon,
\* failing ones included, at most one DataTrails asset is created for it.
C10_AtMostOneAsset == Cardinality(assets) <= 1

====
